---- MODULE Spec2Model ----
(***************************************************************************)
(* Model of rr (src/index.py), the diagnosis-narrative parser: it reads    *)
(* data.output.diagnosis and data.output.rationale from the model payload, *)
(* splits the diagnosis text into lines, decodes each line into a name and *)
(* a likelihood, locates the rationale span of each item by first-match    *)
(* substring search, cleans the span and returns the list of records.      *)
(* Texts are TLA+ strings; the Python string methods are operators on them *)
(* with Python's 0-based indices.                                          *)
(***************************************************************************)
EXTENDS Integers, Sequences, FiniteSets, TLC

(***************************************************************************)
(* Bounds of the model.                                                    *)
(***************************************************************************)
\* the largest number of lines in a diagnosis text
MaxLines == 2
\* the largest number of heading+body sections in a rationale text
MaxSections == 2
\* the largest number of tokens in a text given to the normaliser alone
MaxTokens == 4
\* the largest number of invocations of rr begun in one run
MaxCalls == 3
\* the largest number of /snomed requests in one run
MaxRequests == 2

(***************************************************************************)
(* Python str methods.                                                     *)
(***************************************************************************)
SetMin(S) == CHOOSE x \in S : \A y \in S : x <= y

SetMax(S) == CHOOSE x \in S : \A y \in S : x >= y

\* the characters str.strip() and str.split() treat as whitespace
Whitespace == {" ", "\n", "\t", "\r"}

\* s.find(sub): the 0-based index of the first occurrence, -1 when there is none
Find(s, sub) ==
  LET hits == {k \in 0..(Len(s) - Len(sub)) : SubSeq(s, k + 1, k + Len(sub)) = sub}
  IN  IF hits = {} THEN -1 ELSE SetMin(hits)

\* sub in s
Contains(s, sub) == Find(s, sub) # -1

\* a slice bound as Python clamps it: negative bounds count from the end
ClampIndex(n, a) ==
  IF a < 0 THEN (IF n + a < 0 THEN 0 ELSE n + a) ELSE (IF a > n THEN n ELSE a)

\* s[a:b]
Slice(s, a, b) ==
  LET lo == ClampIndex(Len(s), a)
      hi == ClampIndex(Len(s), b)
  IN  IF hi <= lo THEN "" ELSE SubSeq(s, lo + 1, hi)

\* s[a:]
SliceFrom(s, a) ==
  LET lo == ClampIndex(Len(s), a)
  IN  IF Len(s) <= lo THEN "" ELSE SubSeq(s, lo + 1, Len(s))

\* s.strip()
Strip(s) ==
  LET keep == {k \in 1..Len(s) : SubSeq(s, k, k) \notin Whitespace}
  IN  IF keep = {} THEN "" ELSE SubSeq(s, SetMin(keep), SetMax(keep))

\* s.rstrip(chars)
RStrip(s, chars) ==
  LET keep == {k \in 1..Len(s) : SubSeq(s, k, k) \notin chars}
  IN  IF keep = {} THEN "" ELSE SubSeq(s, 1, SetMax(keep))

\* s.split(sep)
RECURSIVE Split(_, _)
Split(s, sep) ==
  LET k == Find(s, sep)
  IN  IF k = -1 THEN <<s>>
      ELSE <<Slice(s, 0, k)>> \o Split(SliceFrom(s, k + Len(sep)), sep)

\* s.split(sep, 1)
SplitOnce(s, sep) ==
  LET k == Find(s, sep)
  IN  IF k = -1 THEN <<s>>
      ELSE <<Slice(s, 0, k), SliceFrom(s, k + Len(sep))>>

\* s.split(): the maximal runs of non-whitespace characters
RECURSIVE SplitWhitespace(_)
SplitWhitespace(s) ==
  LET t == Strip(s)
      ws == {k \in 1..Len(t) : SubSeq(t, k, k) \in Whitespace}
  IN  IF t = "" THEN <<>>
      ELSE IF ws = {} THEN <<t>>
      ELSE <<SubSeq(t, 1, SetMin(ws) - 1)>>
           \o SplitWhitespace(SubSeq(t, SetMin(ws) + 1, Len(t)))

\* sep.join(parts)
RECURSIVE Join(_, _)
Join(parts, sep) ==
  IF parts = <<>> THEN ""
  ELSE IF Len(parts) = 1 THEN parts[1]
  ELSE parts[1] \o sep \o Join(Tail(parts), sep)

\* s.replace(old, new), old non-empty: non-overlapping, left to right
RECURSIVE Replace(_, _, _)
Replace(s, old, new) ==
  LET k == Find(s, old)
  IN  IF k = -1 THEN s
      ELSE Slice(s, 0, k) \o new \o Replace(SliceFrom(s, k + Len(old)), old, new)

Digits == <<"0", "1", "2", "3", "4", "5", "6", "7", "8", "9">>

\* f"{n}" of a natural number
RECURSIVE Str(_)
Str(n) == IF n < 10 THEN Digits[n + 1] ELSE Str(n \div 10) \o Digits[(n % 10) + 1]

(***************************************************************************)
(* JSON values: the payload rr receives.                                   *)
(***************************************************************************)
JStr(s) == [t |-> "str", v |-> s]

JNum(n) == [t |-> "num", v |-> n]

JNull == [t |-> "null"]

JObj(f) == [t |-> "obj", v |-> f]

\* x[key]: KeyError for a dict without the key, TypeError for None, a number or a
\* string subscripted by a string
GetItem(x, key) ==
  IF x.t = "obj"
  THEN IF key \in DOMAIN x.v THEN [exc |-> "none", v |-> x.v[key]]
       ELSE [exc |-> "KeyError"]
  ELSE [exc |-> "TypeError"]

\* {"data": {"output": {"diagnosis": d, "rationale": r}}}
Payload(d, r) == JObj([data |-> JObj([output |-> JObj([diagnosis |-> d, rationale |-> r])])])

(***************************************************************************)
(* The literals of rr.                                                     *)
(***************************************************************************)
LikelihoodMarker == "(Likelihood: "

\* line 176 cuts the next line at the marker without its trailing space
NextLikelihoodMarker == "(Likelihood:"

OrdinalSeparator == ". "

RationaleMarker == "* **Rationale:**"

FeaturesMarker == "* **Clinical Relevance and Features:**"

ClinicalAnchor == "Clinical"

(***************************************************************************)
(* Lines 156-160: the two texts and the non-blank, stripped lines.         *)
(***************************************************************************)
\* [item.strip() for item in lines if item.strip()]
RECURSIVE StripNonBlank(_)
StripNonBlank(lines) ==
  IF lines = <<>> THEN <<>>
  ELSE (IF Strip(Head(lines)) = "" THEN <<>> ELSE <<Strip(Head(lines))>>)
       \o StripNonBlank(Tail(lines))

\* diagnosis_text.split("\n"), stripped and filtered
DiagnosisItems(diagnosis_text) == StripNonBlank(Split(diagnosis_text, "\n"))

\* lines 156-160: the exception raised, or the rationale value and the items
ExtractFields(json) ==
  LET data == GetItem(json, "data")
      output == GetItem(data.v, "output")
      diagnosis == GetItem(output.v, "diagnosis")
      rationale == GetItem(output.v, "rationale")
  IN  IF data.exc # "none" THEN [exc |-> data.exc]
      ELSE IF output.exc # "none" THEN [exc |-> output.exc]
      ELSE IF diagnosis.exc # "none" THEN [exc |-> diagnosis.exc]
      ELSE IF rationale.exc # "none" THEN [exc |-> rationale.exc]
      ELSE IF diagnosis.v.t # "str" THEN [exc |-> "AttributeError"]
      ELSE [exc |-> "none", rationale |-> rationale.v,
            items |-> DiagnosisItems(diagnosis.v.v)]

(***************************************************************************)
(* Lines 166-168: the item decoder.                                        *)
(***************************************************************************)
\* diag.split("(Likelihood: ")
DiagParts(diag) == Split(diag, LikelihoodMarker)

\* NameParts with the maxsplit argument forgotten: diag_parts[0].split(". ")
NamePartsSplitAll(diag) == Split(DiagParts(diag)[1], OrdinalSeparator)

\* diag_parts[0].split(". ", 1)
NameParts(diag) == SplitOnce(DiagParts(diag)[1], OrdinalSeparator)

\* the [1] of line 167 or of line 168 is out of range
DecodeRaises(diag) == Len(NameParts(diag)) < 2 \/ Len(DiagParts(diag)) < 2

\* line 167
DiagnosisName(diag) == Strip(NameParts(diag)[2])

\* line 168
Likelihood(diag) == Strip(RStrip(DiagParts(diag)[2], {")"}))

(***************************************************************************)
(* Lines 171-184: the rationale locator. i is the 0-based index of         *)
(* enumerate; diagnosis_items[i] of the code is items[i + 1] here.         *)
(***************************************************************************)
\* line 171: f"{i+1}. {diagnosis_name}"
RationaleStart(i, name) == Str(i + 1) \o ". " \o name

\* line 176: diagnosis_items[i+1].split('. ', 1)[1] is out of range
NextDiagRaises(items, i) == Len(SplitOnce(items[i + 2], OrdinalSeparator)) < 2

\* line 176
NextDiag(items, i) ==
  Str(i + 2) \o ". "
  \o Strip(Split(SplitOnce(items[i + 2], OrdinalSeparator)[2], NextLikelihoodMarker)[1])

\* SpanBetween with the end_idx != -1 test forgotten: a missing next heading
\* slices to -1
SpanBetweenNoEndCheck(text, start, next) ==
  LET start_idx == Find(text, start)
      end_idx == Find(text, next)
  IN  IF start_idx # -1
      THEN Strip(Slice(text, start_idx + Len(start), end_idx))
      ELSE ""

\* SpanBetween cut after the next heading instead of before it
SpanBetweenPastNext(text, start, next) ==
  LET start_idx == Find(text, start)
      end_idx == Find(text, next)
  IN  IF start_idx # -1 /\ end_idx # -1
      THEN Strip(Slice(text, start_idx + Len(start), end_idx + Len(next)))
      ELSE ""

\* lines 177-180: the span between the two headings
SpanBetween(text, start, next) ==
  LET start_idx == Find(text, start)
      end_idx == Find(text, next)
  IN  IF start_idx # -1 /\ end_idx # -1
      THEN Strip(Slice(text, start_idx + Len(start), end_idx))
      ELSE ""

\* SpanToEnd with the heading not skipped: the slice starts at start_idx
SpanToEndFromHeading(text, start) ==
  LET start_idx == Find(text, start)
  IN  IF start_idx # -1 THEN Strip(SliceFrom(text, start_idx)) ELSE ""

\* lines 182-184: the span of the last item
SpanToEnd(text, start) ==
  LET start_idx == Find(text, start)
  IN  IF start_idx # -1 THEN Strip(SliceFrom(text, start_idx + Len(start))) ELSE ""

(***************************************************************************)
(* Lines 187-193: the rationale normaliser.                                *)
(***************************************************************************)
\* lines 187-188
RemoveMarkers(s) ==
  Strip(Replace(Strip(Replace(s, RationaleMarker, "")), FeaturesMarker, ""))

\* line 189: " ".join(s.split())
CollapseWhitespace(s) == Join(SplitWhitespace(s), " ")

\* line 192
RemoveStars(s) == Strip(Replace(s, "*", ""))

\* the last occurrence of sub in s, -1 when there is none: s.rfind(sub)
FindLast(s, sub) ==
  LET hits == {k \in 0..(Len(s) - Len(sub)) : SubSeq(s, k + 1, k + Len(sub)) = sub}
  IN  IF hits = {} THEN -1 ELSE SetMax(hits)

\* TruncateToClinical with rfind for find: the cut is at the last "Clinical"
TruncateToLastClinical(s) == SliceFrom(s, FindLast(s, ClinicalAnchor))

\* line 193: s[s.find("Clinical"):]
TruncateToClinical(s) == SliceFrom(s, Find(s, ClinicalAnchor))

\* lines 187-193
CleanRationale(s) == TruncateToClinical(RemoveStars(CollapseWhitespace(RemoveMarkers(s))))

(***************************************************************************)
(* The inputs the model draws from.                                        *)
(***************************************************************************)
\* the sequences of at most n elements of S
SeqsUpTo(S, n) == UNION {[1..k -> S] : k \in 0..n}

\* diagnosis lines of the form "<n>. <name> (Likelihood: <label>)"
WellFormedLines == {"1. Flu (Likelihood: High)", "2. E. coli (Likelihood: Low)"}

\* lines without the likelihood marker or without the ordinal separator
MalformedLines == {"2. E. coli", "Flu (Likelihood: High)"}

\* lines that decode, with an empty name, text after the closing parenthesis,
\* parentheses in the label, a second marker, a marker without its space
OddLines ==
  {"1. (Likelihood: High)",
   "1. Flu (Likelihood: High) today",
   "1. Flu (Likelihood: High (90%))",
   "1. Flu (Likelihood: High) (Likelihood: Low)",
   "2. Flu (Likelihood:x) (Likelihood: Low)"}

BlankLines == {"  "}

AllLines == WellFormedLines \cup MalformedLines \cup OddLines \cup BlankLines

\* the diagnosis texts of at most MaxLines lines drawn from S
DiagnosisTexts(S) == {Join(ls, "\n") : ls \in SeqsUpTo(S, MaxLines)}

Headings == {"1. Flu", "2. E. coli"}

\* what follows a heading: both markers, the anchor and an emphasis star; prose
\* without the anchor; plain prose from the anchor on
Bodies ==
  {"\n* **Rationale:** Fits.\n* **Clinical Relevance and Features:** Clinical a * b. ",
   " fever and cough.\n",
   " Clinical signs. "}

Sections == {h \o b : h \in Headings, b \in Bodies}

\* the rationale texts of at most MaxSections sections
RationaleTexts == {Join(ss, "") : ss \in SeqsUpTo(Sections, MaxSections)}

\* each heading once; and the second heading also spelt with two spaces
BasicRationaleTexts ==
  {"1. Flu * **Rationale:** Clinical signs. 2. E. coli Clinical x.",
   "1. Flu Clinical signs, not 2.  E. coli 2. E. coli Clinical x."}

\* payloads of the expected shape: any lines with a basic rationale text, and
\* well-formed lines with any rationale text
TextPayloads ==
  {Payload(JStr(d), JStr(r)) : d \in DiagnosisTexts(AllLines), r \in BasicRationaleTexts}
  \cup {Payload(JStr(d), JStr(r)) : d \in DiagnosisTexts(WellFormedLines), r \in RationaleTexts}

\* payloads of another shape: None, a missing key at each level, non-string fields
ShapePayloads ==
  {JNull,
   JObj([error |-> JStr("timeout")]),
   JObj([data |-> JNull]),
   JObj([data |-> JObj([conclusion |-> JStr("x")])]),
   JObj([data |-> JObj([output |-> JStr("x")])]),
   JObj([data |-> JObj([output |-> JObj([rationale |-> JStr("x")])])]),
   JObj([data |-> JObj([output |-> JObj([diagnosis |-> JStr("1. Flu (Likelihood: High)")])])]),
   Payload(JNull, JStr("1. Flu Clinical signs.")),
   Payload(JNum(7), JStr("1. Flu Clinical signs.")),
   Payload(JStr("1. Flu (Likelihood: High)"), JNull),
   Payload(JStr("1. Flu (Likelihood: High)\n2. E. coli (Likelihood: Low)"), JNum(7)),
   Payload(JStr("  "), JNull)}

(***************************************************************************)
(* One invocation of rr.                                                   *)
(***************************************************************************)
VARIABLES
  original_json,      \* the argument
  pc,                 \* "start", "loop", "locate", "clean", "raise", "done", "crashed"
  rationale_text,     \* line 157 (a JSON value: it need not be a string)
  diagnosis_items,    \* line 160
  i,                  \* the index of enumerate, 0-based
  diagnosis_name,     \* line 167
  likelihood,         \* line 168
  rationale_content,  \* lines 172-193
  structured_output,  \* line 162
  exc,                \* the exception raised inside the try, "none" when none
  result,             \* the value returned
  suspended,          \* the frame of the invocation of another thread, not running
  calls,              \* the number of invocations begun
  env,                \* the environment variables the concept functions read
  db,                 \* the rows of the concept tables
  responses           \* the /snomed requests served, in order, with their outcome

vars == <<original_json, pc, rationale_text, diagnosis_items, i, diagnosis_name,
          likelihood, rationale_content, structured_output, exc, result,
          suspended, calls, env, db, responses>>

\* what /snomed works on
snomedVars == <<env, db, responses>>

\* what no step of an invocation touches
otherVars == <<suspended, calls, env, db, responses>>

\* os.environ.get(..., default) of lines 382 and 384 when the variables are unset
DefaultEnv == [CONCEPT_LOCALE |-> "en", CONCEPT_NAME_TYPE |-> "FULLY_SPECIFIED"]

\* the concept tables without a row; ids are lastrowid, counted from 1
EmptyDb ==
  [concept |-> 0, concept_name |-> <<>>, concept_reference_term |-> <<>>,
   concept_reference_map |-> <<>>, concept_set |-> <<>>]

\* no /snomed request was served
SnomedIdle ==
  /\ env = DefaultEnv
  /\ db = EmptyDb
  /\ responses = <<>>

\* the frame of an invocation: its argument, its position and its locals
Frame(json, at, rt, items, idx, name, lik, content, output, e, res) ==
  [original_json |-> json, pc |-> at, rationale_text |-> rt, diagnosis_items |-> items,
   i |-> idx, diagnosis_name |-> name, likelihood |-> lik, rationale_content |-> content,
   structured_output |-> output, exc |-> e, result |-> res]

\* line 144: the frame of a call of rr, every local unbound
FreshFrame(json) == Frame(json, "start", JNull, <<>>, 0, "", "", "", <<>>, "none", <<>>)

\* no other invocation
NoFrame == Frame(JNull, "absent", JNull, <<>>, 0, "", "", "", <<>>, "none", <<>>)

\* the frame of the running invocation
CurrentFrame ==
  Frame(original_json, pc, rationale_text, diagnosis_items, i, diagnosis_name, likelihood,
        rationale_content, structured_output, exc, result)

\* the running invocation continues from frame f
Resume(f) ==
  /\ original_json' = f.original_json
  /\ pc' = f.pc
  /\ rationale_text' = f.rationale_text
  /\ diagnosis_items' = f.diagnosis_items
  /\ i' = f.i
  /\ diagnosis_name' = f.diagnosis_name
  /\ likelihood' = f.likelihood
  /\ rationale_content' = f.rationale_content
  /\ structured_output' = f.structured_output
  /\ exc' = f.exc
  /\ result' = f.result

\* Catches narrowed to the missing-key case: except KeyError
CatchesKeyErrorOnly(e) == e = "KeyError"

\* line 205: except Exception catches every exception the body raises
Catches(e) == e \in {"KeyError", "TypeError", "AttributeError", "IndexError"}

Init ==
  /\ original_json \in TextPayloads \cup ShapePayloads
  /\ pc = "start"
  /\ rationale_text = JNull
  /\ diagnosis_items = <<>>
  /\ i = 0
  /\ diagnosis_name = ""
  /\ likelihood = ""
  /\ rationale_content = ""
  /\ structured_output = <<>>
  /\ exc = "none"
  /\ result = <<>>
  /\ suspended = NoFrame
  /\ calls = 1
  /\ SnomedIdle

\* an exception inside the try: control goes to the handler of line 205
Raise(e) ==
  /\ exc' = e
  /\ pc' = "raise"

\* lines 156-162
Extract ==
  /\ pc = "start"
  /\ UNCHANGED otherVars
  /\ LET f == ExtractFields(original_json)
     IN  IF f.exc # "none"
         THEN /\ Raise(f.exc)
              /\ UNCHANGED <<rationale_text, diagnosis_items>>
         ELSE /\ rationale_text' = f.rationale
              /\ diagnosis_items' = f.items
              /\ pc' = "loop"
              /\ exc' = exc
  /\ UNCHANGED <<original_json, i, diagnosis_name, likelihood, rationale_content,
                 structured_output, result>>

\* lines 164-168: the next item, decoded
Decode ==
  /\ pc = "loop"
  /\ UNCHANGED otherVars
  /\ i < Len(diagnosis_items)
  /\ LET diag == diagnosis_items[i + 1]
     IN  IF DecodeRaises(diag)
         THEN /\ Raise("IndexError")
              /\ UNCHANGED <<diagnosis_name, likelihood>>
         ELSE /\ diagnosis_name' = DiagnosisName(diag)
              /\ likelihood' = Likelihood(diag)
              /\ pc' = "locate"
              /\ exc' = exc
  /\ UNCHANGED <<original_json, rationale_text, diagnosis_items, i, rationale_content,
                 structured_output, result>>

\* lines 171-184: the span of the item in the rationale text
Locate ==
  /\ pc = "locate"
  /\ UNCHANGED otherVars
  /\ LET start == RationaleStart(i, diagnosis_name)
         last == ~(i < Len(diagnosis_items) - 1)
     IN  IF ~last /\ NextDiagRaises(diagnosis_items, i)
         THEN /\ Raise("IndexError")
              /\ UNCHANGED rationale_content
         ELSE IF rationale_text.t # "str"
         THEN /\ Raise("AttributeError")
              /\ UNCHANGED rationale_content
         ELSE /\ rationale_content' =
                   IF last THEN SpanToEnd(rationale_text.v, start)
                   ELSE SpanBetween(rationale_text.v, start, NextDiag(diagnosis_items, i))
              /\ pc' = "clean"
              /\ exc' = exc
  /\ UNCHANGED <<original_json, rationale_text, diagnosis_items, i, diagnosis_name,
                 likelihood, structured_output, result>>

\* lines 187-201: the span cleaned, the record appended
Clean ==
  /\ pc = "clean"
  /\ UNCHANGED otherVars
  /\ rationale_content' = CleanRationale(rationale_content)
  /\ structured_output' =
       Append(structured_output,
              [diagnosis |-> diagnosis_name,
               rationale |-> rationale_content',
               likelihood |-> likelihood])
  /\ i' = i + 1
  /\ pc' = "loop"
  /\ UNCHANGED <<original_json, rationale_text, diagnosis_items, diagnosis_name,
                 likelihood, exc, result>>

\* line 203
Return ==
  /\ pc = "loop"
  /\ UNCHANGED otherVars
  /\ i = Len(diagnosis_items)
  /\ result' = structured_output
  /\ pc' = "done"
  /\ UNCHANGED <<original_json, rationale_text, diagnosis_items, i, diagnosis_name,
                 likelihood, rationale_content, structured_output, exc>>

\* Except returning the records appended before the exception
ExceptReturningPartial ==
  /\ pc = "raise"
  /\ UNCHANGED otherVars
  /\ IF Catches(exc)
     THEN /\ result' = structured_output
          /\ pc' = "done"
     ELSE /\ result' = result
          /\ pc' = "crashed"
  /\ UNCHANGED <<original_json, rationale_text, diagnosis_items, i, diagnosis_name,
                 likelihood, rationale_content, structured_output, exc>>

\* lines 205-207: the handler returns []; an exception it does not catch leaves rr
Except ==
  /\ pc = "raise"
  /\ UNCHANGED otherVars
  /\ IF Catches(exc)
     THEN /\ result' = <<>>
          /\ pc' = "done"
     ELSE /\ result' = result
          /\ pc' = "crashed"
  /\ UNCHANGED <<original_json, rationale_text, diagnosis_items, i, diagnosis_name,
                 likelihood, rationale_content, structured_output, exc>>

Next == Extract \/ Decode \/ Locate \/ Clean \/ Return \/ Except

Spec == Init /\ [][Next]_vars

(***************************************************************************)
(* Invocations of rr by two request threads: a context switch suspends the *)
(* running invocation and resumes the other; a thread whose invocation has *)
(* returned calls rr again.                                                *)
(***************************************************************************)
InvocationPayloads ==
  {Payload(JStr("1. Flu (Likelihood: High)\n2. E. coli (Likelihood: Low)"),
           JStr("1. Flu * **Rationale:** Clinical signs. 2. E. coli Clinical x.")),
   Payload(JStr("1. Flu (Likelihood: High)"), JStr("1. Flu Clinical a * b.\n")),
   Payload(JStr("1. Flu (Likelihood: High)\n2. E. coli"),
           JStr("1. Flu * **Rationale:** Clinical signs. 2. E. coli Clinical x.")),
   JObj([error |-> JStr("timeout")])}

InitInvocations ==
  /\ original_json \in InvocationPayloads
  /\ pc = "start"
  /\ rationale_text = JNull
  /\ diagnosis_items = <<>>
  /\ i = 0
  /\ diagnosis_name = ""
  /\ likelihood = ""
  /\ rationale_content = ""
  /\ structured_output = <<>>
  /\ exc = "none"
  /\ result = <<>>
  /\ suspended \in {FreshFrame(p) : p \in InvocationPayloads}
  /\ calls = 2
  /\ SnomedIdle

\* the threads switch: the running frame is suspended, the suspended one runs
Switch ==
  /\ suspended.pc # "absent"
  /\ suspended' = CurrentFrame
  /\ Resume(suspended)
  /\ calls' = calls
  /\ UNCHANGED snomedVars

\* Call with the list of records outliving the invocation, as a module-level
\* list would
CallKeepingOutput ==
  /\ pc = "done"
  /\ calls < MaxCalls
  /\ \E p \in InvocationPayloads :
       Resume([FreshFrame(p) EXCEPT !.structured_output = structured_output])
  /\ calls' = calls + 1
  /\ suspended' = suspended
  /\ UNCHANGED snomedVars

\* lines 144-162: the running thread, its invocation returned, calls rr again
Call ==
  /\ pc = "done"
  /\ calls < MaxCalls
  /\ \E p \in InvocationPayloads : Resume(FreshFrame(p))
  /\ calls' = calls + 1
  /\ suspended' = suspended
  /\ UNCHANGED snomedVars

NextInvocations == Extract \/ Decode \/ Locate \/ Clean \/ Return \/ Except \/ Switch \/ Call

SpecInvocations == InitInvocations /\ [][NextInvocations]_vars

(***************************************************************************)
(* The /snomed endpoint and the concept functions it calls.  Each function *)
(* runs one statement on the database; a statement that fails raises       *)
(* mysql.connector.Error inside the function.                              *)
(***************************************************************************)
UpperLetters == "ABCDEFGHIJKLMNOPQRSTUVWXYZ"
LowerLetters == "abcdefghijklmnopqrstuvwxyz"

\* lower() of one character
LowerChar(c) ==
  IF \E k \in 1..Len(UpperLetters) : SubSeq(UpperLetters, k, k) = c
  THEN LET k == CHOOSE k \in 1..Len(UpperLetters) : SubSeq(UpperLetters, k, k) = c
       IN  SubSeq(LowerLetters, k, k)
  ELSE c

\* lower(name) of the query of line 464
RECURSIVE Lower(_)
Lower(s) == IF s = "" THEN "" ELSE LowerChar(SubSeq(s, 1, 1)) \o Lower(SliceFrom(s, 1))

\* the statements of a request
Statements ==
  {"check_concept", "add_concept", "add_concept_name", "add_concept_reference_term",
   "add_concept_reference_map", "add_concept_diagnosis_set"}

\* the rows the query of line 464 selects
CheckConceptRows(d, concept_name) ==
  {k \in 1..Len(d.concept_name) :
     /\ Lower(d.concept_name[k].name) = Lower(concept_name)
     /\ d.concept_name[k].concept_name_type = "FULLY_SPECIFIED"
     /\ d.concept_name[k].locale = "en"}

\* lines 445-478: what check_concept can return, 0 when fetchone() gives no row;
\* the query has no ORDER BY, so any selected row may come first
check_concept(d, concept_name) ==
  IF CheckConceptRows(d, concept_name) = {}
  THEN {0}
  ELSE {d.concept_name[k].concept_id : k \in CheckConceptRows(d, concept_name)}

\* lines 404-442: a failed insert leaves concept_id unbound and line 442 raises
add_concept(d, fails) ==
  IF fails
  THEN [db |-> d, raised |-> TRUE, id |-> 0]
  ELSE [db |-> [d EXCEPT !.concept = @ + 1], raised |-> FALSE, id |-> d.concept + 1]

\* lines 368-401: the name is stored with the configured locale and type; a
\* failed insert is printed and the function returns as after a successful one
add_concept_name(d, e, concept_id, concept_name, fails) ==
  IF fails
  THEN d
  ELSE [d EXCEPT !.concept_name =
          Append(@, [concept_id |-> concept_id, name |-> concept_name,
                     locale |-> e.CONCEPT_LOCALE,
                     concept_name_type |-> e.CONCEPT_NAME_TYPE])]

\* lines 300-331: a failed insert leaves concept_reference_term_id unbound and
\* line 331 raises
add_concept_reference_term(d, snomedct_code, fails) ==
  IF fails
  THEN [db |-> d, raised |-> TRUE, id |-> 0]
  ELSE [db |-> [d EXCEPT !.concept_reference_term = Append(@, [code |-> snomedct_code])],
        raised |-> FALSE,
        id |-> Len(d.concept_reference_term) + 1]

\* lines 264-298: a failed insert is printed and the function returns
add_concept_reference_map(d, concept_id, concept_reference_term_id, fails) ==
  IF fails
  THEN d
  ELSE [d EXCEPT !.concept_reference_map =
          Append(@, [concept_reference_term_id |-> concept_reference_term_id,
                     concept_id |-> concept_id])]

\* lines 335-367: a failed insert is printed and the function returns
add_concept_diagnosis_set(d, concept_id, fails) ==
  IF fails
  THEN d
  ELSE [d EXCEPT !.concept_set = Append(@, [concept_id |-> concept_id])]

\* what a request leaves: the tables, and the entry of the request in responses.
\* status is the HTTP status, "500" when an exception left the view function;
\* result is what check_concept returned, created the id of the concept the
\* request inserted (0 when none), failed whether a statement it ran failed.
Outcome(d, concept_name, snomed_code, status, found, created, failed) ==
  [db |-> d,
   response |-> [conceptName |-> concept_name, snomedCode |-> snomed_code,
                 status |-> status, result |-> found, created |-> created,
                 failed |-> failed, before |-> db]]

\* lines 512-516: the concept exists
SnomedExisting(d, concept_name, snomed_code, found, failing) ==
  LET k == add_concept_reference_term(d, snomed_code, failing = "add_concept_reference_term")
  IN  IF k.raised
      THEN Outcome(k.db, concept_name, snomed_code, "500", found, 0, TRUE)
      ELSE Outcome(add_concept_reference_map(k.db, found, k.id,
                                             failing = "add_concept_reference_map"),
                   concept_name, snomed_code, "200", found, 0,
                   failing = "add_concept_reference_map")

\* lines 517-524: the concept does not exist
SnomedNew(d, e, concept_name, snomed_code, found, failing) ==
  LET c == add_concept(d, failing = "add_concept")
      named == add_concept_name(c.db, e, c.id, concept_name, failing = "add_concept_name")
      crt == add_concept_reference_term(named, snomed_code,
                                        failing = "add_concept_reference_term")
      mapped == add_concept_reference_map(crt.db, c.id, crt.id,
                                          failing = "add_concept_reference_map")
      inSet == add_concept_diagnosis_set(mapped, c.id,
                                         failing = "add_concept_diagnosis_set")
  IN  IF c.raised
      THEN Outcome(c.db, concept_name, snomed_code, "500", found, 0, TRUE)
      ELSE IF crt.raised
      THEN Outcome(crt.db, concept_name, snomed_code, "500", found, c.id, TRUE)
      ELSE Outcome(inSet, concept_name, snomed_code, "200", found, c.id,
                   failing \in {"add_concept_name", "add_concept_reference_map",
                                "add_concept_diagnosis_set"})

ConceptNames == {"Flu", "flu"}
SnomedCodes == {"111", "222"}
Envs ==
  {DefaultEnv,
   [CONCEPT_LOCALE |-> "fr", CONCEPT_NAME_TYPE |-> "FULLY_SPECIFIED"],
   [CONCEPT_LOCALE |-> "en", CONCEPT_NAME_TYPE |-> "SHORT"]}

\* the tables with the concept "Flu" already there
DbWithFlu ==
  [EmptyDb EXCEPT !.concept = 1,
                  !.concept_name = <<[concept_id |-> 1, name |-> "Flu", locale |-> "en",
                                      concept_name_type |-> "FULLY_SPECIFIED"]>>]

InitSnomed ==
  /\ original_json = JNull
  /\ pc = "absent"
  /\ rationale_text = JNull
  /\ diagnosis_items = <<>>
  /\ i = 0
  /\ diagnosis_name = ""
  /\ likelihood = ""
  /\ rationale_content = ""
  /\ structured_output = <<>>
  /\ exc = "none"
  /\ result = <<>>
  /\ suspended = NoFrame
  /\ calls = 0
  /\ env \in Envs
  /\ db \in {EmptyDb, DbWithFlu}
  /\ responses = <<>>

\* lines 482-527: one request, served to its end; at most one of its statements
\* fails. A failed SELECT leaves r unbound and line 478 raises.
Snomed ==
  /\ Len(responses) < MaxRequests
  /\ \E concept_name \in ConceptNames, snomed_code \in SnomedCodes,
        failing \in Statements \cup {"none"} :
       \E r \in check_concept(db, concept_name) :
         LET out == IF failing = "check_concept"
                    THEN Outcome(db, concept_name, snomed_code, "500", 0, 0, TRUE)
                    ELSE IF r > 0
                    THEN SnomedExisting(db, concept_name, snomed_code, r, failing)
                    ELSE SnomedNew(db, env, concept_name, snomed_code, r, failing)
         IN  /\ db' = out.db
             /\ responses' = Append(responses, out.response)
  /\ UNCHANGED <<env, suspended, calls, original_json, pc, rationale_text,
                 diagnosis_items, i, diagnosis_name, likelihood, rationale_content,
                 structured_output, exc, result>>

NextSnomed == Snomed

SpecSnomed == InitSnomed /\ [][NextSnomed]_vars

(***************************************************************************)
(* rr on one item whose span is a given text: the normaliser of lines      *)
(* 187-193 applied to texts assembled from tokens.                         *)
(***************************************************************************)
NormaliserTokens == {"Clinical", " ", "x", "*", "\n", RationaleMarker}

\* the texts of at most MaxTokens tokens
NormaliserTexts == {Join(ts, "") : ts \in SeqsUpTo(NormaliserTokens, MaxTokens)}

NormaliserHeading == "1. Flu"

\* one item, and a rationale text that is its heading, a space and the text t
NormaliserPayload(t) ==
  Payload(JStr("1. Flu (Likelihood: High)"), JStr(NormaliserHeading \o " " \o t))

InitNormaliser ==
  /\ original_json \in {NormaliserPayload(t) : t \in NormaliserTexts} \cup ShapePayloads
  /\ pc = "start"
  /\ rationale_text = JNull
  /\ diagnosis_items = <<>>
  /\ i = 0
  /\ diagnosis_name = ""
  /\ likelihood = ""
  /\ rationale_content = ""
  /\ structured_output = <<>>
  /\ exc = "none"
  /\ result = <<>>
  /\ suspended = NoFrame
  /\ calls = 1
  /\ SnomedIdle

SpecNormaliser == InitNormaliser /\ [][Next]_vars

(***************************************************************************)
(* What the properties speak of.                                           *)
(***************************************************************************)
\* the payload has the shape {"data": {"output": {"diagnosis": str, "rationale": str}}}
IsTextPayload ==
  /\ original_json.t = "obj"
  /\ "data" \in DOMAIN original_json.v
  /\ original_json.v.data.t = "obj"
  /\ "output" \in DOMAIN original_json.v.data.v
  /\ original_json.v.data.v.output.t = "obj"
  /\ {"diagnosis", "rationale"} \subseteq DOMAIN original_json.v.data.v.output.v
  /\ original_json.v.data.v.output.v.diagnosis.t = "str"
  /\ original_json.v.data.v.output.v.rationale.t = "str"

InputDiagnosis == original_json.v.data.v.output.v.diagnosis.v

InputRationale == original_json.v.data.v.output.v.rationale.v

\* the lines of the diagnosis text that are not blank, as written
InputLines == SelectSeq(Split(InputDiagnosis, "\n"), LAMBDA l : Strip(l) # "")

\* the number of occurrences of sub in s
OccurrenceCount(s, sub) ==
  Cardinality({k \in 1..(Len(s) - Len(sub) + 1) : SubSeq(s, k, k + Len(sub) - 1) = sub})

Ordinals == {"1", "2", "3"}

Names == {"Flu", "E. coli"}

Labels == {"High", "Low"}

\* "<n>. <name> (Likelihood: <label>)"
FormatLine(n, name, label) == n \o ". " \o name \o " (Likelihood: " \o label \o ")"

\* every non-blank line has the form, and its heading occurs once in the rationale text
WellFormedInput ==
  /\ IsTextPayload
  /\ \A k \in 1..Len(InputLines) :
       \E n \in Ordinals, name \in Names, label \in Labels :
         /\ InputLines[k] = FormatLine(n, name, label)
         /\ OccurrenceCount(InputRationale, n \o ". " \o name) = 1

\* C1: for a well-formed input rr returns one record per non-blank line, in line
\* order, the k-th with the name and the label of the k-th line.
WellFormedParse ==
  (pc = "done" /\ WellFormedInput) =>
    /\ Len(result) = Len(InputLines)
    /\ \A k \in 1..Len(InputLines) :
         \A n \in Ordinals, name \in Names, label \in Labels :
           InputLines[k] = FormatLine(n, name, label) =>
             /\ k <= Len(result)
             /\ result[k].diagnosis = name
             /\ result[k].likelihood = label

\* a well-formed two-line input parsed into two records, the second named "E. coli"
WellFormedParseWitness ==
  /\ pc = "done"
  /\ WellFormedInput
  /\ Len(InputLines) = 2
  /\ Len(result) = 2
  /\ result[1].diagnosis = "Flu"
  /\ result[2].diagnosis = "E. coli"
  /\ result[2].likelihood = "Low"

\* the part of a line before its likelihood marker
NameSegment(line) == SubSeq(line, 1, Find(line, LikelihoodMarker))

\* a line without the likelihood marker, or without ". " in its name segment
IsMalformed(line) ==
  \/ ~Contains(line, LikelihoodMarker)
  \/ ~Contains(NameSegment(line), OrdinalSeparator)

ValidLines == SelectSeq(InputLines, LAMBDA l : ~IsMalformed(l))

\* the name a valid line carries: its name segment after the first ". ", trimmed
NameOf(line) ==
  LET seg == NameSegment(line)
  IN  Strip(SubSeq(seg, Find(seg, OrdinalSeparator) + 3, Len(seg)))

\* C2: one malformed line does not abort the parse: rr returns the records of
\* the valid lines, in order, and omits only the malformed one.
MalformedLineSkipped ==
  (pc = "done" /\ IsTextPayload /\ Len(ValidLines) + 1 = Len(InputLines)) =>
    /\ Len(result) = Len(ValidLines)
    /\ \A k \in 1..Len(ValidLines) :
         k <= Len(result) /\ result[k].diagnosis = NameOf(ValidLines[k])

\* C3: no exception leaves rr: every run ends with a list returned, the empty
\* list when an exception was raised.
NoExceptionEscapes ==
  /\ pc # "crashed"
  /\ (pc = "done" /\ exc # "none") => result = <<>>

\* a parse that failed on a later line after a record was built, and returned []
NoExceptionEscapesWitness ==
  /\ pc = "done"
  /\ exc = "IndexError"
  /\ structured_output # <<>>
  /\ result = <<>>

\* every non-blank line of the diagnosis text decodes
AllLinesValid == IsTextPayload /\ Len(ValidLines) = Len(InputLines)

\* the heading rr searches for the k-th item (k counted from 1)
HeadingOf(k) == Str(k) \o ". " \o NameOf(Strip(InputLines[k]))

\* the name line 176 takes from a following line: its text after the first ". "
\* up to the first "(Likelihood:", trimmed
NextNameOf(line) ==
  LET rest == SubSeq(line, Find(line, OrdinalSeparator) + 3, Len(line))
      cut == Find(rest, NextLikelihoodMarker)
  IN  Strip(IF cut = -1 THEN rest ELSE SubSeq(rest, 1, cut))

\* the heading that ends the span of the k-th item, k not the last
NextHeadingOf(k) == Str(k + 1) \o ". " \o NextNameOf(Strip(InputLines[k + 1]))

\* a heading that bounds the span of the k-th item is not in the rationale text
HeadingMissing(k) ==
  \/ ~Contains(InputRationale, HeadingOf(k))
  \/ k < Len(InputLines) /\ ~Contains(InputRationale, NextHeadingOf(k))

\* C4: an item with a bounding heading missing from the rationale text still gets
\* its record, with its diagnosis and likelihood and the rationale "", and every
\* other item gets its record too.
MissingHeadingEmptyRationale ==
  (pc = "done" /\ AllLinesValid) =>
    /\ Len(result) = Len(InputLines)
    /\ \A k \in 1..Len(InputLines) :
         HeadingMissing(k) =>
           /\ k <= Len(result)
           /\ result[k].diagnosis = NameOf(Strip(InputLines[k]))
           /\ result[k].likelihood = Likelihood(Strip(InputLines[k]))
           /\ result[k].rationale = ""

\* two items, the first heading in the rationale text and the second not: both
\* records are returned with an empty rationale
MissingHeadingEmptyRationaleWitness ==
  /\ pc = "done"
  /\ AllLinesValid
  /\ Len(InputLines) = 2
  /\ Contains(InputRationale, HeadingOf(1))
  /\ ~Contains(InputRationale, NextHeadingOf(1))
  /\ Len(result) = 2
  /\ result[1].rationale = ""
  /\ result[2].rationale = ""
  /\ result[2].diagnosis = "E. coli"

\* the item being located is not the last one
NotLast == i + 1 < Len(InputLines)

\* the 1-based positions in the rationale text where the span of the item being
\* located starts and ends: after the first occurrence of its heading, before the
\* first occurrence of the next heading or at the end of the text
SpanFirst == Find(InputRationale, HeadingOf(i + 1)) + Len(HeadingOf(i + 1)) + 1

SpanLast ==
  IF NotLast THEN Find(InputRationale, NextHeadingOf(i + 1)) ELSE Len(InputRationale)

\* the headings that bound the span of the item being located are both found
BoundsFound ==
  /\ Contains(InputRationale, HeadingOf(i + 1))
  /\ NotLast => Contains(InputRationale, NextHeadingOf(i + 1))

\* C5 as stated: the span rr holds after locating it is the substring between the
\* end of the first occurrence of the item's heading and the start of the first
\* occurrence of the next heading (the end of the text for the last item).
SpanIsSubstring ==
  (pc = "clean" /\ IsTextPayload /\ BoundsFound) =>
    rationale_content = SubSeq(InputRationale, SpanFirst, SpanLast)

\* C5 amended: the span rr holds after locating it is that substring with its
\* leading and trailing whitespace removed, and is empty when a bounding heading
\* is not found.
SpanIsTrimmedSubstring ==
  (pc = "clean" /\ IsTextPayload) =>
    rationale_content =
      IF BoundsFound THEN Strip(SubSeq(InputRationale, SpanFirst, SpanLast)) ELSE ""

\* the last of two items located, after a first item with a non-empty rationale:
\* its span is not empty and differs from the untrimmed substring
SpanIsTrimmedSubstringWitness ==
  /\ pc = "clean"
  /\ IsTextPayload
  /\ BoundsFound
  /\ ~NotLast
  /\ i = 1
  /\ structured_output[1].rationale # ""
  /\ rationale_content # ""
  /\ rationale_content # SubSeq(InputRationale, SpanFirst, SpanLast)

\* C6: the last normalisation step cuts the rationale to start at the first
\* "Clinical", and a span without "Clinical" gives the empty rationale.
ClinicalTruncation ==
  [][(pc = "clean" /\ ~Contains(rationale_content, ClinicalAnchor))
       => rationale_content' = ""]_vars

\* the character at 1-based position k of s is whitespace
IsWhitespaceAt(s, k) == SubSeq(s, k, k) \in Whitespace

\* no leading or trailing whitespace, no run of two whitespace characters, only
\* spaces as whitespace, no "*", no boilerplate marker
FullyNormalised(s) ==
  /\ Strip(s) = s
  /\ \A k \in 1..Len(s) : IsWhitespaceAt(s, k) => SubSeq(s, k, k) = " "
  /\ \A k \in 1..(Len(s) - 1) : ~(IsWhitespaceAt(s, k) /\ IsWhitespaceAt(s, k + 1))
  /\ ~Contains(s, "*")
  /\ ~Contains(s, RationaleMarker)
  /\ ~Contains(s, FeaturesMarker)

\* C7: the rationale of every record is fully normalised.
RationaleNormalised ==
  \A k \in 1..Len(structured_output) : FullyNormalised(structured_output[k].rationale)

\* the heading of the k-th record and of the record after it, from the decoded names
RecordHeading(k) == Str(k) \o ". " \o structured_output[k].diagnosis

FollowingHeading(k) == Str(k + 1) \o ". " \o NameOf(Strip(InputLines[k + 1]))

\* the rationale of the k-th record contains neither its own heading nor the next
NoHeadingIn(k) ==
  /\ ~Contains(structured_output[k].rationale, RecordHeading(k))
  /\ (k < Len(InputLines) /\ ~IsMalformed(Strip(InputLines[k + 1]))) =>
       ~Contains(structured_output[k].rationale, FollowingHeading(k))

PlainSingleSpaced(s) ==
  /\ ~Contains(s, "*")
  /\ \A k \in 1..Len(s) : IsWhitespaceAt(s, k) => SubSeq(s, k, k) = " "
  /\ \A k \in 1..(Len(s) - 1) : ~(IsWhitespaceAt(s, k) /\ IsWhitespaceAt(s, k + 1))

DiagnosisNonEmptyTrimmed ==
  IsTextPayload =>
    \A k \in 1..Len(structured_output) :
      /\ structured_output[k].diagnosis # ""
      /\ Strip(structured_output[k].diagnosis) = structured_output[k].diagnosis
      /\ structured_output[k].diagnosis = NameOf(Strip(InputLines[k]))

\* the 1-based position of the ")" that closes the parenthesis open before
\* position k of s, 0 when there is none
RECURSIVE ClosingAt(_, _, _)
ClosingAt(s, k, depth) ==
  IF k > Len(s) THEN 0
  ELSE IF SubSeq(s, k, k) = "(" THEN ClosingAt(s, k + 1, depth + 1)
  ELSE IF SubSeq(s, k, k) = ")"
       THEN (IF depth = 0 THEN k ELSE ClosingAt(s, k + 1, depth - 1))
  ELSE ClosingAt(s, k + 1, depth)

\* the label of a line: the text between its first "(Likelihood: " and the
\* matching ")", trimmed
LabelOf(line) ==
  LET from == Find(line, LikelihoodMarker) + Len(LikelihoodMarker) + 1
      close == ClosingAt(line, from, 0)
  IN  Strip(SubSeq(line, from, IF close = 0 THEN Len(line) ELSE close - 1))

\* C10: the likelihood of every record is the trimmed text between the first
\* "(Likelihood: " of its line and the matching closing parenthesis.
LikelihoodIsLabel ==
  IsTextPayload =>
    \A k \in 1..Len(structured_output) :
      structured_output[k].likelihood = LabelOf(Strip(InputLines[k]))

\* the text the normaliser is given: what follows the heading and the space
NormaliserInput == SliceFrom(InputRationale, Len(NormaliserHeading) + 1)

\* no "*", no boilerplate marker, single-spaced, trimmed, starting with "Clinical"
AlreadyNormalised(s) ==
  /\ FullyNormalised(s)
  /\ Find(s, ClinicalAnchor) = 0

\* C11: the four normalisation steps return an already normalised rationale
\* unchanged.
NormaliserIdempotent ==
  (pc = "done" /\ IsTextPayload /\ AlreadyNormalised(NormaliserInput)) =>
    /\ Len(result) = 1
    /\ result[1].rationale = NormaliserInput

\* an already normalised text with a space and a second "Clinical", returned as is
NormaliserIdempotentWitness ==
  /\ pc = "done"
  /\ IsTextPayload
  /\ AlreadyNormalised(NormaliserInput)
  /\ NormaliserInput = "Clinical Clinical"
  /\ Len(result) = 1
  /\ result[1].rationale = "Clinical Clinical"

\* the item at 0-based index k of items raises in lines 166-184
ItemRaises(items, rt, k) ==
  \/ DecodeRaises(items[k + 1])
  \/ k < Len(items) - 1 /\ NextDiagRaises(items, k)
  \/ rt.t # "str"

\* the record lines 166-199 build for the item at 0-based index k
ItemRecord(items, text, k) ==
  LET name == DiagnosisName(items[k + 1])
      start == RationaleStart(k, name)
  IN  [diagnosis |-> name,
       rationale |-> CleanRationale(IF k < Len(items) - 1
                                    THEN SpanBetween(text, start, NextDiag(items, k))
                                    ELSE SpanToEnd(text, start)),
       likelihood |-> Likelihood(items[k + 1])]

\* what rr returns for a payload, as a function of the payload alone
RrOf(json) ==
  LET f == ExtractFields(json)
  IN  IF f.exc # "none" THEN <<>>
      ELSE IF \E k \in 0..(Len(f.items) - 1) : ItemRaises(f.items, f.rationale, k)
      THEN <<>>
      ELSE [k \in 1..Len(f.items) |-> ItemRecord(f.items, f.rationale.v, k - 1)]

\* C12: whatever the interleaving with another invocation and whatever was
\* invoked before, the list an invocation returns is a function of its own
\* payload, and no step of an invocation changes its payload.
InvocationsIndependent ==
  [][/\ pc' = "done" => result' = RrOf(original_json')
     /\ suspended'.pc = "done" => suspended'.result = RrOf(suspended'.original_json)
     /\ (calls' = calls /\ suspended' = suspended) => original_json' = original_json]_vars

\* a third invocation returned while the other thread's invocation has returned
\* too, each with its own records
InvocationsIndependentWitness ==
  /\ calls = 3
  /\ pc = "done"
  /\ suspended.pc = "done"
  /\ Len(result) = 2
  /\ Len(suspended.result) = 1
  /\ suspended.result[1].rationale = "Clinical a  b."

\* C14: the list returned is empty or holds one record for each non-blank line
\* of the diagnosis text, in line order; never some of the records.
AllOrNothing ==
  pc = "done" =>
    \/ result = <<>>
    \/ /\ IsTextPayload
       /\ Len(result) = Len(InputLines)
       /\ \A k \in 1..Len(InputLines) :
            k <= Len(result) /\ result[k].diagnosis = NameOf(Strip(InputLines[k]))

\* the record of the first of two lines was appended, the second line raised,
\* and nothing was returned
AllOrNothingWitness ==
  /\ pc = "done"
  /\ IsTextPayload
  /\ Len(InputLines) = 2
  /\ Len(structured_output) = 1
  /\ exc = "IndexError"
  /\ result = <<>>

\* the request served k-th ended with status 200 and none of its statements failed
Succeeded(k) == responses[k].status = "200" /\ ~responses[k].failed

\* the rows the request served k-th found in table t
RowsBefore(k, t) == Len(responses[k].before[t])

\* the rows table t holds after the request served k-th
RowsAfter(k, t) ==
  IF k = Len(responses) THEN Len(db[t]) ELSE Len(responses[k + 1].before[t])

\* the concepts after the request served k-th
ConceptsAfter(k) ==
  IF k = Len(responses) THEN db.concept ELSE responses[k + 1].before.concept

\* a request that succeeded did one of the two things, as check_concept decided:
\* a reference term and a map to the concept found and nothing else, or a new
\* concept with its name, term, map and set entry
SucceededDidOneOfTwo ==
  \A k \in 1..Len(responses) :
    Succeeded(k) =>
      LET r == responses[k]
          added(t) == RowsAfter(k, t) - RowsBefore(k, t)
          term == db.concept_reference_term[RowsAfter(k, "concept_reference_term")]
          map == db.concept_reference_map[RowsAfter(k, "concept_reference_map")]
      IN  /\ added("concept_reference_term") = 1 /\ term.code = r.snomedCode
          /\ added("concept_reference_map") = 1
          /\ map.concept_reference_term_id = RowsAfter(k, "concept_reference_term")
          /\ IF r.result > 0
             THEN /\ ConceptsAfter(k) = r.before.concept
                  /\ added("concept_name") = 0 /\ added("concept_set") = 0
                  /\ map.concept_id = r.result
             ELSE /\ ConceptsAfter(k) = r.before.concept + 1
                  /\ added("concept_name") = 1 /\ added("concept_set") = 1
                  /\ map.concept_id = ConceptsAfter(k)
                  /\ db.concept_name[RowsAfter(k, "concept_name")].name = r.conceptName
                  /\ db.concept_set[RowsAfter(k, "concept_set")].concept_id = ConceptsAfter(k)

\* C13: in a sequence of /snomed requests that all succeeded, no two requests
\* whose concept names are equal up to case both created a concept.
AtMostOneConceptPerName ==
  (\A k \in 1..Len(responses) : Succeeded(k)) =>
    \A j, k \in 1..Len(responses) :
      (j < k /\ Lower(responses[j].conceptName) = Lower(responses[k].conceptName)) =>
        ~(responses[j].created > 0 /\ responses[k].created > 0)

====
